---- MODULE Spec2Model ----
(***************************************************************************)
(* Model of pdstools.adm.new_ADMDatamart.ADMDatamart: construction         *)
(* (__init__, _validate_model_data, _validate_predictor_data,              *)
(* apply_predictor_categorization) and save_data.                          *)
(*                                                                         *)
(* A polars LazyFrame is a record                                          *)
(*    [present |-> TRUE, schema, snapType, rows, bad]                      *)
(* schema  : the set of column names,                                      *)
(* snapType: the dtype of the SnapshotTime column ("Datetime"/"String"),   *)
(* rows    : a sequence of rows, each a function from column name to value,*)
(* bad     : the deferred errors of the lazy plan; a plan with bad # {}    *)
(*           raises when it is materialized, not when it is built.         *)
(* Python's None is NoneFrame.  Floats are exact: Num(n, d) is n/d,        *)
(* NaN and Inf are the IEEE results of 0/0 and x/0 (x > 0).                *)
(***************************************************************************)
EXTENDS Integers, Sequences, FiniteSets, TLC

VARIABLES
    model_df,             \* constructor argument model_df
    predictor_df,         \* constructor argument predictor_df
    query,                \* constructor argument query
    extract_pyname_keys,  \* constructor argument extract_pyname_keys
    phase,                \* "new" | "ready" (constructed) | "raised" (__init__ raised)
    context_keys,         \* self.context_keys
    model_data,           \* self.model_data
    predictor_data,       \* self.predictor_data
    combined_data,        \* self.combined_data
    factory_calls,        \* invocations of the categorization factory by __init__
    clock,                \* datetime.datetime.now(), in milliseconds
    storage,              \* the artifacts written by cache_to_file
    saves,                \* number of save_data calls so far
    result                \* outcome of the last operation after construction

vars == <<model_df, predictor_df, query, extract_pyname_keys, phase, context_keys,
          model_data, predictor_data, combined_data, factory_calls, clock, storage,
          saves, result>>

inputs == <<model_df, predictor_df, query, extract_pyname_keys>>
datamart == <<phase, context_keys, model_data, predictor_data, combined_data>>

(* ------------------------------ bounds --------------------------------- *)
MaxCount == 2    \* counts (Positives, ResponseCount, Bin...) range over 0..MaxCount
MaxClock == 2    \* the clock runs from 0 to MaxClock
MaxSaves == 1    \* save_data is called at most MaxSaves times

Counts == 0..MaxCount

(* ------------------------------ values --------------------------------- *)
NoneFrame == [present |-> FALSE]

Num(n, d) == [k |-> "num", n |-> n, d |-> d]
NaN == [k |-> "nan", n |-> 0, d |-> 0]
Inf == [k |-> "inf", n |-> 1, d |-> 0]

\* polars true division of two non-negative numbers a/b given as the exact
\* fraction n/d (d > 0 when the divisor is non-zero)
Div(n, d) == IF d # 0 THEN Num(n, d) ELSE IF n = 0 THEN NaN ELSE Inf

\* Expr.fill_nan(pl.lit(0)): NaN becomes 0, every other value (Inf too) is kept
fill_nan(v) == IF v.k = "nan" THEN Num(0, 1) ELSE v

IsNum(v) == v.k = "num"
NumEq(v, n, d) == IsNum(v) /\ v.n * d = n * v.d
NumIn01(v) == IsNum(v) /\ 0 <= v.n /\ v.n <= v.d
NumStrictly01(v) == IsNum(v) /\ 0 < v.n /\ v.n < v.d

SeqMap(Op(_), s) == [i \in 1..Len(s) |-> Op(s[i])]

RECURSIVE SeqFilter(_, _)
SeqFilter(Test(_), s) ==
    IF s = <<>> THEN <<>>
    ELSE IF Test(Head(s)) THEN <<Head(s)>> \o SeqFilter(Test, Tail(s))
    ELSE SeqFilter(Test, Tail(s))

RECURSIVE SeqFlatten(_)
SeqFlatten(ss) == IF ss = <<>> THEN <<>> ELSE Head(ss) \o SeqFlatten(Tail(ss))

Extend(row, col, v) == [c \in (DOMAIN row) \cup {col} |-> IF c = col THEN v ELSE row[c]]

(* --------------------------- column names ------------------------------ *)
\* the canonical column names the datamart works with
CanonicalNames ==
    {"ModelID", "Channel", "Direction", "Issue", "Group", "Name", "Treatment",
     "Positives", "ResponseCount", "SnapshotTime",
     "PredictorName", "BinPositives", "BinNegatives", "BinResponseCount",
     "PredictorCategory"}

LowerOf(c) ==
    CASE c = "ModelID" -> "modelid"
      [] c = "Channel" -> "channel"
      [] c = "Direction" -> "direction"
      [] c = "Issue" -> "issue"
      [] c = "Group" -> "group"
      [] c = "Name" -> "name"
      [] c = "Treatment" -> "treatment"
      [] c = "Positives" -> "positives"
      [] c = "ResponseCount" -> "responsecount"
      [] c = "SnapshotTime" -> "snapshottime"
      [] c = "PredictorName" -> "predictorname"
      [] c = "BinPositives" -> "binpositives"
      [] c = "BinNegatives" -> "binnegatives"
      [] c = "BinResponseCount" -> "binresponsecount"
      [] c = "PredictorCategory" -> "predictorcategory"
      [] OTHER -> c

\* A raw (exported) column name: a Pega property prefix and a word.
Styles == {"canon", "py", "lower"}
RawName(style, c) ==
    CASE style = "py" -> <<"py", c>>
      [] style = "lower" -> <<"", LowerOf(c)>>
      [] OTHER -> <<"", c>>

\* _polars_capitalize on one name: the prefix is dropped and the word is
\* folded to its canonical capitalisation
CapitalizeName(raw) ==
    IF \E c \in CanonicalNames : LowerOf(c) = LowerOf(raw[2])
    THEN CHOOSE c \in CanonicalNames : LowerOf(c) = LowerOf(raw[2])
    ELSE raw[2]

\* _polars_capitalize on a frame: columns renamed, rows and content kept
_polars_capitalize(df) ==
    LET old(c) == CHOOSE r \in df.schema : CapitalizeName(r) = c
        names == {CapitalizeName(r) : r \in df.schema}
    IN  [df EXCEPT !.schema = names,
                   !.rows = SeqMap(LAMBDA row : [c \in names |-> row[old(c)]], df.rows)]

(* ----------------------------- lazy frames ----------------------------- *)
Frame(schema, snapType, rows) ==
    [present |-> TRUE, schema |-> schema, snapType |-> snapType, rows |-> rows, bad |-> {}]

ColumnNotFound(c) == [error |-> "ColumnNotFound", col |-> c]
ParseError == [error |-> "ParseError", col |-> "SnapshotTime"]


\* LazyFrame.with_columns(col = expression), where the expression reads the
\* columns refs and has the value vals[i] on row i: building the plan never
\* fails; a reference to a column the frame does not have is recorded and
\* raises at materialization
with_columns(df, col, refs, vals) ==
    IF refs \subseteq df.schema
    THEN [df EXCEPT !.schema = @ \cup {col},
                    !.rows = [i \in 1..Len(df.rows) |-> Extend(df.rows[i], col, vals[i])]]
    ELSE [df EXCEPT !.bad = @ \cup {ColumnNotFound(c) : c \in refs \ df.schema}]

\* LazyFrame.collect(): the rows, or the plan's deferred error
collect(df) ==
    IF df.bad = {} THEN [status |-> "ok", rows |-> df.rows]
    ELSE [status |-> "error", errors |-> df.bad]

(* ------------------------ external collaborators ----------------------- *)
\* cdh_utils._extract_keys: the keys embedded in the Name column are appended
\* as new columns; no row is dropped and no existing column is altered.
\* A Name value is <<name>> or <<name, treatment>>.
_extract_keys(df) ==
    IF "Treatment" \in df.schema THEN df
    ELSE with_columns(df, "Treatment", {"Name"},
                      SeqMap(LAMBDA row : IF Len(row["Name"]) > 1 THEN row["Name"][2] ELSE "",
                             df.rows))

\* cdh_utils.parse_pega_date_time_formats: a string in an accepted format
\* becomes a timestamp; any other string fails when the plan is materialized
\* (a timestamp is written in ISO form, an unparsed value is "")
ParsePegaDateTime(s) ==
    CASE s = "20240101T000000.000 GMT" -> "2024-01-01T00:00:00.000"
      [] s = "2024-01-02 00:00:00" -> "2024-01-02T00:00:00.000"
      [] OTHER -> ""

parse_pega_date_time_formats(df) ==
    IF \E i \in 1..Len(df.rows) : ParsePegaDateTime(df.rows[i]["SnapshotTime"]) = ""
    THEN [df EXCEPT !.bad = @ \cup {ParseError}]
    ELSE [df EXCEPT !.snapType = "Datetime",
                    !.rows = SeqMap(LAMBDA row :
                                 [row EXCEPT !["SnapshotTime"] = ParsePegaDateTime(@)],
                                 df.rows)]

\* a query is None or a list of predicates  col > val
NoneQuery == [present |-> FALSE, preds |-> <<>>]
Query(preds) == [present |-> TRUE, preds |-> preds]
Pred(col, val) == [col |-> col, val |-> val]
Satisfies(row, p) == row[p.col] > p.val

\* cdh_utils._apply_query: the frame restricted to the rows that satisfy every
\* predicate; no predicate is the identity; a predicate over an unknown column
\* fails when the plan is materialized
_apply_query(df, q) ==
    LET cols == {q.preds[i].col : i \in 1..Len(q.preds)}
    IN  IF ~q.present THEN df
        ELSE IF cols \subseteq df.schema
        THEN [df EXCEPT !.rows =
                 SeqFilter(LAMBDA row : \A i \in 1..Len(q.preds) : Satisfies(row, q.preds[i]),
                           df.rows)]
        ELSE [df EXCEPT !.bad = @ \cup {ColumnNotFound(c) : c \in cols \ df.schema}]

(* ------------------------- _validate_model_data ------------------------ *)
\* __init__, lines 38-44
CandidateKeys == <<"Channel", "Direction", "Issue", "Group", "Name">>

\* line 100-104: SuccessRate = (Positives / ResponseCount).fill_nan(0)
SuccessRate(row) == fill_nan(Div(row["Positives"], row["ResponseCount"]))


\* SelectContextKeys without the filter of line 98
SelectContextKeys_unfiltered(keys, schema) ==
    IF "Treatment" \in schema THEN Append(keys, "Treatment") ELSE keys

\* DeriveSuccessRate that leaves the column out when the frame lacks a column
\* the expression reads
DeriveSuccessRate_lenient(df) ==
    IF {"Positives", "ResponseCount"} \subseteq df.schema
    THEN with_columns(df, "SuccessRate", {"Positives", "ResponseCount"},
                      SeqMap(SuccessRate, df.rows))
    ELSE df

\* lines 100-104: df.with_columns(SuccessRate = ...)
DeriveSuccessRate(df) ==
    with_columns(df, "SuccessRate", {"Positives", "ResponseCount"},
                 SeqMap(SuccessRate, df.rows))

\* lines 95-98: Treatment is appended when the schema has it, then the list
\* is filtered to the names of the schema
SelectContextKeys(keys, schema) ==
    LET appended == IF "Treatment" \in schema THEN Append(keys, "Treatment") ELSE keys
    IN  SeqFilter(LAMBDA k : k \in schema, appended)

\* The method returns the validated frame and leaves self.context_keys set;
\* raised = TRUE is the KeyError of schema["SnapshotTime"] (line 105).
_validate_model_data(keys, df, q, extract) ==
    IF ~df.present
    THEN [raised |-> FALSE, df |-> df, context_keys |-> keys]
    ELSE
      LET cap == _polars_capitalize(df)
          schema == cap.schema
          extracted == IF extract /\ "Name" \in schema THEN _extract_keys(cap) ELSE cap
          ctx == SelectContextKeys(keys, schema)
          rated == DeriveSuccessRate(extracted)
          timed == IF cap.snapType # "Datetime"
                   THEN parse_pega_date_time_formats(rated) ELSE rated
      IN  IF "SnapshotTime" \notin schema
          THEN [raised |-> TRUE, df |-> NoneFrame, context_keys |-> ctx]
          ELSE [raised |-> FALSE, df |-> _apply_query(timed, q), context_keys |-> ctx]

(* ----------------------- _validate_predictor_data ---------------------- *)
\* line 121: BinResponseCount = BinPositives + BinNegatives
BinResponseCount(row) == row["BinPositives"] + row["BinNegatives"]

\* line 124: BinPropensity = BinPositives / BinResponseCount
BinPropensity(row) == Div(row["BinPositives"], row["BinResponseCount"])


\* BinAdjustedPropensity without the Laplace smoothing
BinAdjustedPropensity_unsmoothed(row) ==
    Div(row["BinPositives"], row["BinResponseCount"])

\* lines 125-128: (BinPositives + 0.5) / (BinResponseCount + 1), both sides doubled
BinAdjustedPropensity(row) ==
    Div(2 * row["BinPositives"] + 1, 2 * row["BinResponseCount"] + 2)

\* A categorization is an expression (a rule) or a zero-argument factory of one.
Callable(rule) == [callable |-> TRUE, rule |-> rule]
Expr(rule) == [callable |-> FALSE, rule |-> rule]

\* cdh_utils.default_predictor_categorization: the category is read off the
\* predictor's name, <<category, name>> or <<name>>
DefaultCategory(row) ==
    IF Len(row["PredictorName"]) > 1 THEN row["PredictorName"][1] ELSE "Primary"

RuleRefs(rule) == IF rule = "default" THEN {"PredictorName"} ELSE {}
RuleValue(rule, row) == IF rule = "default" THEN DefaultCategory(row) ELSE "Custom"

default_predictor_categorization == Callable("default")


\* apply_predictor_categorization with the presence check inside: a frame that
\* has the column is returned as it is
apply_predictor_categorization_guarded(df, categorization) ==
    IF "PredictorCategory" \in df.schema
    THEN [df |-> df, calls |-> 0]
    ELSE [df |-> with_columns(df, "PredictorCategory", RuleRefs(categorization.rule),
                              SeqMap(LAMBDA row : RuleValue(categorization.rule, row),
                                     df.rows)),
          calls |-> IF categorization.callable THEN 1 ELSE 0]

\* lines 143-146: a callable is invoked (once) to obtain the expression, and the
\* expression becomes the PredictorCategory column.  calls counts the invocations.
apply_predictor_categorization(df, categorization) ==
    LET calls == IF categorization.callable THEN 1 ELSE 0
        rule == categorization.rule
    IN  [df |-> with_columns(df, "PredictorCategory", RuleRefs(rule),
                             SeqMap(LAMBDA row : RuleValue(rule, row), df.rows)),
         calls |-> calls]

\* lines 119-129: the derived bin columns
DeriveBinColumns(df, schema) ==
    LET counted == IF "BinResponseCount" \notin schema
                   THEN with_columns(df, "BinResponseCount",
                                     {"BinPositives", "BinNegatives"},
                                     SeqMap(BinResponseCount, df.rows))
                   ELSE df
        withProp == with_columns(counted, "BinPropensity",
                                 {"BinPositives", "BinResponseCount"},
                                 SeqMap(BinPropensity, counted.rows))
    IN  IF withProp.bad # {} THEN withProp
        ELSE with_columns(withProp, "BinAdjustedPropensity",
                          {"BinPositives", "BinResponseCount"},
                          SeqMap(BinAdjustedPropensity, withProp.rows))


\* _validate_predictor_data with absent data turned into an empty frame
_validate_predictor_data_empty(df) ==
    IF ~df.present THEN [df |-> Frame({}, "Datetime", <<>>), calls |-> 0]
    ELSE
      LET cap == _polars_capitalize(df)
          derived == DeriveBinColumns(cap, cap.schema)
      IN  IF "PredictorCategory" \notin cap.schema
          THEN apply_predictor_categorization(derived, default_predictor_categorization)
          ELSE [df |-> derived, calls |-> 0]

\* lines 110-134
_validate_predictor_data(df) ==
    IF ~df.present THEN [df |-> df, calls |-> 0]
    ELSE
      LET cap == _polars_capitalize(df)
          schema == cap.schema
          derived == DeriveBinColumns(cap, schema)
      IN  IF "PredictorCategory" \notin schema
          THEN apply_predictor_categorization(derived, default_predictor_categorization)
          ELSE [df |-> derived, calls |-> 0]

(* ------------------------------ __init__ -------------------------------- *)
\* Aggregates._combine_data: absent when either source is absent, otherwise
\* the inner join of the predictor rows with the model rows on ModelID
JoinRows(mrows, prows) ==
    SeqFlatten([i \in 1..Len(mrows) |->
        SeqMap(LAMBDA prow : prow @@ mrows[i],
               SeqFilter(LAMBDA prow : prow["ModelID"] = mrows[i]["ModelID"], prows))])

_combine_data(mdf, pdf) ==
    IF ~mdf.present \/ ~pdf.present THEN NoneFrame
    ELSE LET missing == IF "ModelID" \in mdf.schema /\ "ModelID" \in pdf.schema
                        THEN {} ELSE {ColumnNotFound("ModelID")}
             bad == mdf.bad \cup pdf.bad \cup missing
         IN  [present |-> TRUE,
              schema |-> mdf.schema \cup pdf.schema,
              snapType |-> mdf.snapType,
              rows |-> IF bad = {} THEN JoinRows(mdf.rows, pdf.rows) ELSE <<>>,
              bad |-> bad]


\* ADMDatamart with the query applied to the predictor data as well
ADMDatamart_queryBoth(mdf, pdf, q, extract) ==
    LET m == _validate_model_data(CandidateKeys, mdf, q, extract)
        p == _validate_predictor_data(pdf)
        pq == IF p.df.present THEN _apply_query(p.df, q) ELSE p.df
    IN  IF m.raised
        THEN [raised |-> TRUE, context_keys |-> <<>>, model_data |-> NoneFrame,
              predictor_data |-> NoneFrame, combined_data |-> NoneFrame, calls |-> 0]
        ELSE [raised |-> FALSE, context_keys |-> m.context_keys, model_data |-> m.df,
              predictor_data |-> pq, combined_data |-> _combine_data(m.df, pq),
              calls |-> p.calls]


\* ADMDatamart with the combined view built from the model data as it is
\* before the query is applied
ADMDatamart_combineUnfiltered(mdf, pdf, q, extract) ==
    LET m == _validate_model_data(CandidateKeys, mdf, q, extract)
        u == _validate_model_data(CandidateKeys, mdf, NoneQuery, extract)
        p == _validate_predictor_data(pdf)
    IN  IF m.raised
        THEN [raised |-> TRUE, context_keys |-> <<>>, model_data |-> NoneFrame,
              predictor_data |-> NoneFrame, combined_data |-> NoneFrame, calls |-> 0]
        ELSE [raised |-> FALSE, context_keys |-> m.context_keys, model_data |-> m.df,
              predictor_data |-> p.df, combined_data |-> _combine_data(u.df, p.df),
              calls |-> p.calls]

\* lines 30-59: the state of the constructed object, or raised = TRUE when
\* _validate_model_data raises and no object is constructed
ADMDatamart(mdf, pdf, q, extract) ==
    LET m == _validate_model_data(CandidateKeys, mdf, q, extract)
        p == _validate_predictor_data(pdf)
    IN  IF m.raised
        THEN [raised |-> TRUE, context_keys |-> <<>>, model_data |-> NoneFrame,
              predictor_data |-> NoneFrame, combined_data |-> NoneFrame, calls |-> 0]
        ELSE [raised |-> FALSE, context_keys |-> m.context_keys, model_data |-> m.df,
              predictor_data |-> p.df, combined_data |-> _combine_data(m.df, p.df),
              calls |-> p.calls]

(* ------------------------------ save_data ------------------------------- *)
\* The clock counts TicksPerMs ticks per millisecond; line 163 formats the
\* time and cuts it to the millisecond.
TicksPerMs == 2
TimeStamp(now) == now \div TicksPerMs


\* PredictorCacheName with the time of a second reading of the clock
PredictorCacheName_reread(time) == <<"cached_predictor_data", time + 1>>

ModelCacheName(time) == <<"cached_model_data", time>>
PredictorCacheName(time) == <<"cached_predictor_data", time>>

\* pega_io.cache_to_file: materializes the frame and writes it under name,
\* replacing an artifact of that name; fail is a failure of the write.
\* A failure raises and writes nothing.
cache_to_file(store, df, name, fail) ==
    IF fail \/ collect(df).status # "ok"
    THEN [ok |-> FALSE, storage |-> store, path |-> <<>>]
    ELSE [ok |-> TRUE,
          storage |-> {a \in store : a.name # name} \cup {[name |-> name, rows |-> df.rows]},
          path |-> name]

NoPath == <<>>


\* save_data with the exception of a failed write caught: the method goes on
\* and returns no path for the dataset it could not write
save_data_swallow(store, mdata, pdata, now, mfail, pfail) ==
    LET time == TimeStamp(now)
        mw == cache_to_file(store, mdata, ModelCacheName(time), mfail)
        afterModel == IF mdata.present THEN mw.storage ELSE store
        pw == cache_to_file(afterModel, pdata, PredictorCacheName(time), pfail)
    IN  [status |-> "ok", failed |-> NoPath,
         attempted |-> (IF mdata.present THEN <<ModelCacheName(time)>> ELSE <<>>)
                       \o (IF pdata.present THEN <<PredictorCacheName(time)>> ELSE <<>>),
         storage |-> IF pdata.present THEN pw.storage ELSE afterModel,
         model |-> IF mdata.present THEN mw.path ELSE NoPath,
         predictor |-> IF pdata.present THEN pw.path ELSE NoPath]

\* lines 163-174.  now is the one reading of the clock; mfail and pfail are
\* the failures of the two writes.  An exception of the first write leaves the
\* method at once; nothing written is taken back.
save_data(store, mdata, pdata, now, mfail, pfail) ==
    LET time == TimeStamp(now)
        mw == cache_to_file(store, mdata, ModelCacheName(time), mfail)
        afterModel == IF mdata.present THEN mw.storage ELSE store
        modelPath == IF mdata.present THEN mw.path ELSE NoPath
        pw == cache_to_file(afterModel, pdata, PredictorCacheName(time), pfail)
    IN  IF mdata.present /\ ~mw.ok
        THEN [status |-> "raised", failed |-> ModelCacheName(time),
              attempted |-> <<ModelCacheName(time)>>, storage |-> store,
              model |-> NoPath, predictor |-> NoPath]
        ELSE IF pdata.present /\ ~pw.ok
        THEN [status |-> "raised", failed |-> PredictorCacheName(time),
              attempted |-> (IF mdata.present THEN <<ModelCacheName(time)>> ELSE <<>>)
                            \o <<PredictorCacheName(time)>>,
              storage |-> afterModel, model |-> NoPath, predictor |-> NoPath]
        ELSE [status |-> "ok", failed |-> NoPath,
              attempted |-> (IF mdata.present THEN <<ModelCacheName(time)>> ELSE <<>>)
                            \o (IF pdata.present THEN <<PredictorCacheName(time)>> ELSE <<>>),
              storage |-> IF pdata.present THEN pw.storage ELSE afterModel,
              model |-> modelPath,
              predictor |-> IF pdata.present THEN pw.path ELSE NoPath]

(* ------------------------------- inputs --------------------------------- *)
ModelIDs == <<"m1", "m2">>
ContextColumns == {"Channel", "Direction", "Issue", "Group", "Name", "Treatment"}
ModelColumns == {"ModelID", "Positives", "ResponseCount", "SnapshotTime"}
PredictorColumns == {"ModelID", "PredictorName", "BinPositives", "BinNegatives"}
PredictorNames == << <<"Customer", "Age">>, <<"Age">> >>

\* an exported frame: the columns cols under raw names of one style
RawFrame(style, cols, snapType, rows) ==
    Frame({RawName(style, c) : c \in cols}, snapType,
          SeqMap(LAMBDA row : [r \in {RawName(style, c) : c \in cols} |->
                                  row[CapitalizeName(r)]], rows))

ModelRow(cols, i, pos, rc, snap) ==
    [c \in cols |->
        CASE c = "ModelID" -> ModelIDs[i]
          [] c = "Name" -> IF i = 1 THEN <<"Offer", "T1">> ELSE <<"Offer">>
          [] c = "Positives" -> pos
          [] c = "ResponseCount" -> rc
          [] c = "SnapshotTime" -> snap
          [] OTHER -> "x"]

PredictorRow(cols, i, pos, neg, rc) ==
    [c \in cols |->
        CASE c = "ModelID" -> ModelIDs[i]
          [] c = "PredictorName" -> PredictorNames[i]
          [] c = "BinPositives" -> pos
          [] c = "BinNegatives" -> neg
          [] c = "BinResponseCount" -> rc
          [] c = "PredictorCategory" -> "Existing"
          [] OTHER -> "x"]

SnapValue(snapType) ==
    IF snapType = "Datetime" THEN "2024-01-01T00:00:00.000" ELSE "20240101T000000.000 GMT"

\* a model export with the columns cols and one row per model, all with the
\* SnapshotTime snap
ModelExportAt(style, cols, snapType, snap, pos, rc) ==
    RawFrame(style, cols, snapType,
             [i \in 1..Len(ModelIDs) |-> ModelRow(cols, i, pos[i], rc[i], snap)])

ModelExport(style, cols, snapType, pos, rc) ==
    ModelExportAt(style, cols, snapType, SnapValue(snapType), pos, rc)

\* a predictor export with the columns cols and one bin per model
PredictorExport(style, cols, pos, neg, rc) ==
    RawFrame(style, cols, "Datetime",
             [i \in 1..Len(ModelIDs) |-> PredictorRow(cols, i, pos[i], neg[i], rc[i])])

Queries ==
    {NoneQuery, Query(<<>>), Query(<<Pred("ResponseCount", 1)>>),
     Query(<<Pred("ResponseCount", 0), Pred("Positives", 0)>>),
     Query(<<Pred("Foo", 0)>>)}

Categorizations == {Callable("default"), Callable("custom"), Expr("custom"), Expr("default")}

\* the exports of the general specification: well-formed, or lacking one of
\* the columns an expression or the schema lookup refers to
SomeModels ==
    {NoneFrame}
    \cup {ModelExport("py", (ModelColumns \cup {"Channel", "Name"}) \ drop, t,
                      <<1, 0>>, <<2, 0>>) :
             drop \in {{}, {"SnapshotTime"}, {"Positives"}, {"ResponseCount"}},
             t \in {"String"}}
    \cup {ModelExportAt("py", ModelColumns \cup {"Channel", "Name"}, "String", "yesterday",
                        <<1, 0>>, <<2, 0>>)}

SomePredictors ==
    {NoneFrame}
    \cup {PredictorExport("py", PredictorColumns \ drop, <<1, 0>>, <<1, 0>>, <<0, 0>>) :
             drop \in {{}, {"BinPositives"}, {"BinNegatives"}}}
    \cup {PredictorExport("canon", PredictorColumns \cup {"BinResponseCount", "PredictorCategory"},
                          <<1, 0>>, <<1, 0>>, <<2, 0>>)}

SomeQueries == {NoneQuery, Query(<<Pred("ResponseCount", 1)>>), Query(<<Pred("Foo", 0)>>)}

NotConstructed ==
    /\ phase = "new"
    /\ context_keys = <<>>
    /\ model_data = NoneFrame
    /\ predictor_data = NoneFrame
    /\ combined_data = NoneFrame
    /\ factory_calls = 0
    /\ clock = 0
    /\ storage = {}
    /\ saves = 0
    /\ result = [op |-> "none"]

Init ==
    /\ model_df \in SomeModels
    /\ predictor_df \in SomePredictors
    /\ query \in SomeQueries
    /\ extract_pyname_keys \in BOOLEAN
    /\ NotConstructed

(* ------------------------------- actions -------------------------------- *)
\* ADMDatamart(model_df, predictor_df, query=..., extract_pyname_keys=...)
__init__ ==
    /\ phase = "new"
    /\ LET dm == ADMDatamart(model_df, predictor_df, query, extract_pyname_keys)
       IN  /\ phase' = IF dm.raised THEN "raised" ELSE "ready"
           /\ context_keys' = dm.context_keys
           /\ model_data' = dm.model_data
           /\ predictor_data' = dm.predictor_data
           /\ combined_data' = dm.combined_data
           /\ factory_calls' = dm.calls
    /\ UNCHANGED <<inputs, clock, storage, saves, result>>

\* time passes
Tick ==
    /\ clock < MaxClock
    /\ clock' = clock + 1
    /\ UNCHANGED <<inputs, datamart, factory_calls, storage, saves, result>>

\* datamart.save_data(path), with or without a failing write
SaveData ==
    /\ phase = "ready"
    /\ saves < MaxSaves
    /\ \E mfail \in BOOLEAN, pfail \in BOOLEAN :
         LET r == save_data(storage, model_data, predictor_data, clock, mfail, pfail)
         IN  /\ storage' = r.storage
             /\ result' = [op |-> "save_data", status |-> r.status, failed |-> r.failed,
                           attempted |-> r.attempted, model |-> r.model,
                           predictor |-> r.predictor, before |-> storage,
                           mfail |-> mfail, pfail |-> pfail]
    /\ saves' = saves + 1
    /\ UNCHANGED <<inputs, datamart, factory_calls, clock>>

Accessor(which) ==
    CASE which = "model_data" -> model_data
      [] which = "predictor_data" -> predictor_data
      [] OTHER -> combined_data

\* a consumer materializes one of the three datasets
Materialize ==
    /\ phase = "ready"
    /\ \E which \in {"model_data", "predictor_data", "combined_data"} :
         /\ Accessor(which).present
         /\ result' = [op |-> "collect", which |-> which, out |-> collect(Accessor(which))]
    /\ UNCHANGED <<inputs, datamart, factory_calls, clock, storage, saves>>

\* datamart.apply_predictor_categorization(datamart.predictor_data, categorization)
ApplyPredictorCategorization ==
    /\ phase = "ready"
    /\ predictor_data.present
    /\ \E categorization \in Categorizations :
         LET r == apply_predictor_categorization(predictor_data, categorization)
         IN  result' = [op |-> "apply_predictor_categorization",
                        categorization |-> categorization, out |-> r.df,
                        calls |-> r.calls]
    /\ UNCHANGED <<inputs, datamart, factory_calls, clock, storage, saves>>

Next == __init__ \/ Tick \/ SaveData \/ Materialize \/ ApplyPredictorCategorization

Spec == Init /\ [][Next]_vars

(* ------------------- specifications of the two validators --------------- *)
\* model exports over every choice of context columns, name style and
\* SnapshotTime dtype
KeyedModels ==
    {ModelExport(style, ModelColumns \cup keys, t, <<1, 0>>, <<2, 0>>) :
        style \in Styles, keys \in SUBSET ContextColumns, t \in {"Datetime", "String"}}

\* model exports over every choice of counts
CountedModels ==
    {ModelExport("canon", ModelColumns \cup {"Channel"}, "Datetime", pos, rc) :
        pos \in [1..Len(ModelIDs) -> Counts], rc \in [1..Len(ModelIDs) -> Counts]}

OnePredictor == PredictorExport("py", PredictorColumns, <<1, 0>>, <<1, 0>>, <<0, 0>>)

InitModel ==
    /\ \/ /\ model_df \in KeyedModels \cup {NoneFrame}
          /\ predictor_df = NoneFrame
          /\ query = NoneQuery
          /\ extract_pyname_keys \in BOOLEAN
       \/ /\ model_df \in CountedModels
          /\ predictor_df \in {NoneFrame, OnePredictor}
          /\ query \in Queries
          /\ extract_pyname_keys = TRUE
    /\ NotConstructed

NextModel == __init__ \/ Materialize

SpecModel == InitModel /\ [][NextModel]_vars

\* predictor exports over every choice of the first bin's counts, with and
\* without the optional columns
CountedPredictors ==
    {PredictorExport(style, PredictorColumns \cup extra, <<a, 0>>, <<b, 1>>, <<c, 1>>) :
        style \in Styles, extra \in SUBSET {"BinResponseCount", "PredictorCategory"},
        a \in Counts, b \in Counts, c \in Counts}

OneModel == ModelExport("py", ModelColumns \cup {"Channel"}, "Datetime", <<1, 0>>, <<2, 0>>)

InitPredictor ==
    /\ model_df \in {NoneFrame, OneModel}
    /\ predictor_df \in CountedPredictors
    /\ query = NoneQuery
    /\ extract_pyname_keys = TRUE
    /\ NotConstructed

NextPredictor == __init__ \/ Materialize \/ ApplyPredictorCategorization

SpecPredictor == InitPredictor /\ [][NextPredictor]_vars

(* =============================== claims ================================= *)
CapSchema(df) == {CapitalizeName(r) : r \in df.schema}
SixKeys == <<"Channel", "Direction", "Issue", "Group", "Name", "Treatment">>
KeyPos(k) == CHOOSE i \in 1..Len(SixKeys) : SixKeys[i] = k
Range(s) == {s[i] : i \in 1..Len(s)}

\* C1: after construction context_keys lists, in candidate order and without
\* duplicates, exactly the candidates Channel, Direction, Issue, Group, Name
\* and Treatment that are columns of the capitalized model schema; with no
\* model data it is the five-element candidate list.
C1_ContextKeys ==
    phase = "ready" =>
        IF ~model_df.present
        THEN context_keys = <<"Channel", "Direction", "Issue", "Group", "Name">>
        ELSE /\ Range(context_keys) = Range(SixKeys) \cap CapSchema(model_df)
             /\ \A i \in 1..Len(context_keys), j \in 1..Len(context_keys) :
                    i < j => KeyPos(context_keys[i]) < KeyPos(context_keys[j])

\* a datamart whose export has Treatment but lacks some of the five candidates
C1_Witness ==
    /\ phase = "ready"
    /\ model_df.present
    /\ context_keys = <<"Direction", "Name", "Treatment">>
    /\ <<"py", "Treatment">> \in model_df.schema

\* C2: every row of the validated model data has a SuccessRate in [0,1] that
\* equals Positives / ResponseCount, and is exactly 0 when ResponseCount is 0.
C2_SuccessRate ==
    (phase = "ready" /\ model_data.present /\ model_data.bad = {}) =>
        \A i \in 1..Len(model_data.rows) :
            LET row == model_data.rows[i]
            IN  /\ NumIn01(row["SuccessRate"])
                /\ row["ResponseCount"] # 0 =>
                       NumEq(row["SuccessRate"], row["Positives"], row["ResponseCount"])
                /\ row["ResponseCount"] = 0 => NumEq(row["SuccessRate"], 0, 1)

\* the rows of the validated model data before the query is applied
UnfilteredModelRows ==
    _validate_model_data(CandidateKeys, model_df, NoneQuery, extract_pyname_keys).df.rows

\* C5: the query restricts the model data only: model_data holds exactly the
\* validated model rows that satisfy every predicate (all of them when there
\* is no predicate), and predictor_data is what it is without a query.
C5_QueryModelOnly ==
    (phase = "ready" /\ model_df.present /\ model_data.bad = {}) =>
        /\ model_data.rows =
               SeqFilter(LAMBDA row : \A i \in 1..Len(query.preds) :
                                          row[query.preds[i].col] > query.preds[i].val,
                         UnfilteredModelRows)
        /\ (Len(query.preds) = 0 => model_data.rows = UnfilteredModelRows)
        /\ predictor_data = _validate_predictor_data(predictor_df).df

\* a query that keeps one model row and removes the other, next to predictor data
C5_Witness ==
    /\ phase = "ready"
    /\ query.present /\ Len(query.preds) = 2
    /\ model_data.bad = {}
    /\ Len(model_data.rows) = 1
    /\ Len(model_df.rows) = 2
    /\ predictor_data.present
    /\ Len(predictor_data.rows) = Len(predictor_df.rows)

PredictorOk == phase = "ready" /\ predictor_data.present /\ predictor_data.bad = {}
SuppliedResponseCount == "BinResponseCount" \in CapSchema(predictor_df)

\* C3 as stated: whether BinResponseCount was supplied or derived, every row's
\* BinAdjustedPropensity is strictly between 0 and 1.
C3_Original ==
    PredictorOk =>
        \A i \in 1..Len(predictor_data.rows) :
            NumStrictly01(predictor_data.rows[i]["BinAdjustedPropensity"])

\* C3 amended: BinAdjustedPropensity = (BinPositives + 0.5)/(BinResponseCount + 1);
\* a derived BinResponseCount is BinPositives + BinNegatives; the value is
\* strictly between 0 and 1 when BinResponseCount was derived, and for a
\* supplied BinResponseCount exactly when BinResponseCount >= BinPositives.
C3_AdjustedPropensity ==
    PredictorOk =>
        \A i \in 1..Len(predictor_data.rows) :
            LET row == predictor_data.rows[i]
                ap == row["BinAdjustedPropensity"]
            IN  /\ NumEq(ap, 2 * row["BinPositives"] + 1, 2 * row["BinResponseCount"] + 2)
                /\ ~SuppliedResponseCount =>
                       /\ row["BinResponseCount"] = row["BinPositives"] + row["BinNegatives"]
                       /\ NumStrictly01(ap)
                /\ SuppliedResponseCount =>
                       (NumStrictly01(ap) <=> row["BinResponseCount"] >= row["BinPositives"])

\* a bin without responses and without a supplied BinResponseCount: 0.5/1
C3_Witness ==
    /\ PredictorOk
    /\ ~SuppliedResponseCount
    /\ \E i \in 1..Len(predictor_data.rows) :
          /\ predictor_data.rows[i]["BinPositives"] = 0
          /\ predictor_data.rows[i]["BinNegatives"] = 0
          /\ predictor_data.rows[i]["BinResponseCount"] = 0
          /\ predictor_data.rows[i]["BinAdjustedPropensity"] = Num(1, 2)

HadCategory == "PredictorCategory" \in CapSchema(predictor_df)
InputCategory(i) ==
    predictor_df.rows[i][CHOOSE r \in predictor_df.schema :
                             CapitalizeName(r) = "PredictorCategory"]
CategoryByName(row) ==
    IF Len(row["PredictorName"]) > 1 THEN row["PredictorName"][1] ELSE "Primary"

\* C10: construction applies the categorization rule exactly when the input
\* has no PredictorCategory column, so an existing column is kept; a direct
\* call of apply_predictor_categorization replaces the column of a frame that
\* has one; a callable rule is invoked exactly once, an expression never; the
\* rows are neither added nor removed.
C10_Categorization ==
    /\ PredictorOk =>
          /\ factory_calls = (IF HadCategory THEN 0 ELSE 1)
          /\ Len(predictor_data.rows) = Len(predictor_df.rows)
          /\ \A i \in 1..Len(predictor_data.rows) :
                predictor_data.rows[i]["PredictorCategory"] =
                    IF HadCategory THEN InputCategory(i)
                    ELSE CategoryByName(predictor_data.rows[i])
    /\ (PredictorOk /\ result.op = "apply_predictor_categorization") =>
          /\ result.calls = (IF result.categorization.callable THEN 1 ELSE 0)
          /\ result.out.bad = {}
          /\ Len(result.out.rows) = Len(predictor_data.rows)
          /\ \A i \in 1..Len(result.out.rows) :
                /\ result.out.rows[i]["PredictorCategory"] =
                       IF result.categorization.rule = "default"
                       THEN CategoryByName(predictor_data.rows[i]) ELSE "Custom"
                /\ \A c \in predictor_data.schema \ {"PredictorCategory"} :
                       result.out.rows[i][c] = predictor_data.rows[i][c]

\* a direct call with a factory on data whose PredictorCategory column came
\* with the input: the column is replaced
C10_Witness ==
    /\ PredictorOk
    /\ HadCategory
    /\ result.op = "apply_predictor_categorization"
    /\ result.categorization.callable
    /\ result.calls = 1
    /\ factory_calls = 0
    /\ predictor_data.rows[1]["PredictorCategory"] = "Existing"
    /\ result.out.rows[1]["PredictorCategory"] = "Customer"

Constructed == phase # "new"
SomeAbsent == ~model_df.present \/ ~predictor_df.present
LacksSnapshotTime == model_df.present /\ "SnapshotTime" \notin CapSchema(model_df)

AbsenceHandled ==
    /\ phase = "ready"
    /\ model_data.present <=> model_df.present
    /\ predictor_data.present <=> predictor_df.present
    /\ ~combined_data.present

\* C4 as stated: construction with the model data, the predictor data or both
\* absent never raises, an accessor is absent exactly when its input is, and
\* the combined view is absent.
C4_Original == (Constructed /\ SomeAbsent) => AbsenceHandled

\* C4 amended: the same, for model data that is absent or has a SnapshotTime
\* column; construction raises exactly when present model data has no
\* SnapshotTime column, whatever is absent; and the combined view is present
\* only when both inputs are.
C4_Absence ==
    Constructed =>
        /\ phase = "raised" <=> LacksSnapshotTime
        /\ (SomeAbsent /\ ~LacksSnapshotTime) => AbsenceHandled
        /\ combined_data.present => (model_df.present /\ predictor_df.present)

\* model data without predictor data: the model accessor is populated, the
\* predictor accessor and the combined view are absent
C4_Witness ==
    /\ phase = "ready"
    /\ model_df.present /\ ~predictor_df.present
    /\ model_data.present /\ Len(model_data.rows) > 0
    /\ ~predictor_data.present
    /\ ~combined_data.present

Saved == result.op = "save_data"
ModelArtifact(t) == [name |-> <<"cached_model_data", t>>, rows |-> model_data.rows]
PredictorArtifact(t) == [name |-> <<"cached_predictor_data", t>>, rows |-> predictor_data.rows]
Replaced(store, artifact) == {a \in store : a.name # artifact.name} \cup {artifact}

\* C6: a failing write makes save_data raise; a failing model write leaves
\* the storage as it was and the predictor write is not attempted; a failing
\* predictor write leaves the model artifact already written in the storage.
C6_SaveFailure ==
    [][saves' # saves =>
          LET r == result'
              modelFails == model_data.present /\ (r.mfail \/ model_data.bad # {})
              predictorFails == predictor_data.present /\ (r.pfail \/ predictor_data.bad # {})
              stamp == clock \div TicksPerMs
              martifact == [name |-> <<"cached_model_data", stamp>>, rows |-> model_data.rows]
          IN  /\ r.status = "raised" <=> (modelFails \/ predictorFails)
              /\ modelFails =>
                    /\ r.failed = <<"cached_model_data", stamp>>
                    /\ storage' = storage
                    /\ \A i \in 1..Len(r.attempted) : r.attempted[i][1] # "cached_predictor_data"
              /\ (~modelFails /\ predictorFails) =>
                    /\ r.failed = <<"cached_predictor_data", stamp>>
                    /\ storage' = IF model_data.present THEN Replaced(storage, martifact)
                                  ELSE storage
                    /\ model_data.present => martifact \in storage'
      ]_vars

\* the predictor write failed after the model artifact was written
C6_Witness ==
    /\ Saved
    /\ result.status = "raised"
    /\ result.failed = <<"cached_predictor_data", 1>>
    /\ result.pfail /\ ~result.mfail
    /\ model_data.present
    /\ result.before = {}
    /\ storage = {ModelArtifact(1)}

\* C7: a save_data call that returns has written one artifact per present
\* dataset and none for an absent one, returns for each dataset its artifact's
\* location or no location when the dataset is absent, names the artifacts
\* cached_model_data_<t> and cached_predictor_data_<t> with one timestamp t,
\* and leaves model_data, predictor_data, combined_data and context_keys as
\* they were.
C7_SaveSuccess ==
    [][saves' # saves =>
          LET r == result'
              stamp == clock \div TicksPerMs
              mname == <<"cached_model_data", stamp>>
              pname == <<"cached_predictor_data", stamp>>
              written == (IF model_data.present
                          THEN {[name |-> mname, rows |-> model_data.rows]} ELSE {})
                         \cup (IF predictor_data.present
                               THEN {[name |-> pname, rows |-> predictor_data.rows]} ELSE {})
          IN  /\ <<model_data, predictor_data, combined_data, context_keys>>' =
                     <<model_data, predictor_data, combined_data, context_keys>>
              /\ r.status = "ok" =>
                    /\ r.model = (IF model_data.present THEN mname ELSE <<>>)
                    /\ r.predictor = (IF predictor_data.present THEN pname ELSE <<>>)
                    /\ storage' = {a \in storage : a.name \notin {w.name : w \in written}}
                                  \cup written
      ]_vars

\* both datasets saved under one timestamp, after the clock has moved
C7_Witness ==
    /\ Saved
    /\ result.status = "ok"
    /\ result.model = <<"cached_model_data", 1>>
    /\ result.predictor = <<"cached_predictor_data", 1>>
    /\ storage = {ModelArtifact(1), PredictorArtifact(1)}

\* the combination of the datamart's current model_data and predictor_data
CurrentCombination ==
    LET m == collect(model_data)
        p == collect(predictor_data)
    IN  IF m.status = "ok" /\ p.status = "ok"
           /\ "ModelID" \in model_data.schema /\ "ModelID" \in predictor_data.schema
        THEN [status |-> "ok", rows |-> JoinRows(m.rows, p.rows)]
        ELSE [status |-> "error"]

\* C8: at every point after construction the combined view, when read, is the
\* combination of the datamart's current model_data and predictor_data (absent
\* when one of them is), and a read that has happened returned it.
C8_CombinedView ==
    phase = "ready" =>
        /\ combined_data.present <=> (model_data.present /\ predictor_data.present)
        /\ combined_data.present =>
              /\ collect(combined_data).status = CurrentCombination.status
              /\ CurrentCombination.status = "ok" =>
                     collect(combined_data).rows = CurrentCombination.rows
        /\ (result.op = "collect" /\ result.which = "combined_data") =>
              /\ result.out.status = CurrentCombination.status
              /\ CurrentCombination.status = "ok" =>
                     result.out.rows = CurrentCombination.rows

\* the combined view read after a save, with a model row the query removed
C8_Witness ==
    /\ phase = "ready"
    /\ saves > 0
    /\ result.op = "collect" /\ result.which = "combined_data"
    /\ result.out.status = "ok"
    /\ Len(result.out.rows) = 1
    /\ Len(model_df.rows) = 2 /\ Len(model_data.rows) = 1
    /\ Len(predictor_data.rows) = 2

ModelRefMissing ==
    /\ model_df.present
    /\ \/ {"Positives", "ResponseCount"} \ CapSchema(model_df) # {}
       \/ \E i \in 1..Len(query.preds) :
             query.preds[i].col \notin CapSchema(model_df) \cup {"SuccessRate", "Treatment"}
SnapshotTimeUnparseable ==
    /\ model_df.present
    /\ "SnapshotTime" \in CapSchema(model_df)
    /\ model_df.snapType # "Datetime"
    /\ \E i \in 1..Len(model_df.rows) :
          model_df.rows[i][CHOOSE r \in model_df.schema :
                               CapitalizeName(r) = "SnapshotTime"]
              \notin {"20240101T000000.000 GMT", "2024-01-02 00:00:00"}
PredictorRefMissing ==
    /\ predictor_df.present
    /\ \/ "BinPositives" \notin CapSchema(predictor_df)
       \/ {"BinNegatives", "BinResponseCount"} \cap CapSchema(predictor_df) = {}

\* C9 as stated: whichever referenced column is missing (SnapshotTime
\* included), construction completes and the error comes at materialization.
C9_Original ==
    (Constructed /\ (ModelRefMissing \/ LacksSnapshotTime \/ PredictorRefMissing)) =>
        /\ phase = "ready"
        /\ (ModelRefMissing \/ LacksSnapshotTime) => collect(model_data).status = "error"
        /\ PredictorRefMissing => collect(predictor_data).status = "error"

\* C9 amended: a missing Positives or ResponseCount, a query predicate over an
\* unknown column, and a missing BinPositives (or BinNegatives when it is
\* needed to derive BinResponseCount) do not stop construction and raise when
\* the dataset is materialized; data without any of these (and with a
\* SnapshotTime that parses) materializes; a missing SnapshotTime raises at
\* construction.
C9_DeferredErrors ==
    /\ Constructed => (phase = "raised" <=> LacksSnapshotTime)
    /\ phase = "ready" =>
          /\ model_df.present =>
                (collect(model_data).status = "error"
                     <=> (ModelRefMissing \/ SnapshotTimeUnparseable))
          /\ predictor_df.present =>
                (collect(predictor_data).status = "error" <=> PredictorRefMissing)
          /\ (result.op = "collect" /\ result.which = "model_data") =>
                (result.out.status = "error"
                     <=> (ModelRefMissing \/ SnapshotTimeUnparseable))
          /\ (result.op = "collect" /\ result.which = "predictor_data") =>
                (result.out.status = "error" <=> PredictorRefMissing)

\* a datamart constructed from model data without Positives, whose model data
\* raised when it was materialized
C9_Witness ==
    /\ phase = "ready"
    /\ model_df.present /\ "Positives" \notin CapSchema(model_df)
    /\ result.op = "collect" /\ result.which = "model_data"
    /\ result.out.status = "error"
    /\ ColumnNotFound("Positives") \in result.out.errors

====
